---- MODULE Spec2Model ----
(***************************************************************************)
(* Model of io_import_llm.py: OpImportLLM.execute, the importer of Linden  *)
(* Lab Mesh (.llm) files.  The stream is a sequence of bytes (0..255), the *)
(* file object is the pair (stream, fpos), and one action models each      *)
(* block of execute.  A Python exception ends the run in pc = "error" and  *)
(* leaves the host data (bpy.data.meshes, bpy.data.objects) as it is at    *)
(* the raise.                                                              *)
(*                                                                         *)
(* Floats: an f32 is decoded from its four little-endian IEEE-754 bytes    *)
(* into an integer number of quarters (value * 4).  The decode is exact    *)
(* for every multiple of 1/4 of magnitude below 64, and the streams of the *)
(* model hold only such floats.                                            *)
(***************************************************************************)
EXTENDS Integers, Sequences, FiniteSets, TLC

(* ----------------------------- bounds --------------------------------- *)
\* vertex count of the files whose values vary
MaxVerts == 3
\* vertices, faces and morph targets of the files that are cut at every offset
MaxCut == 1
\* morph targets of the files whose morph values vary
MaxMorphs == 2
\* faces of the files whose face values vary
MaxFaces == 2
\* joint names of a file with weights
MaxJoints == 1

(* ------------------------- byte level helpers -------------------------- *)
RECURSIVE Pow2(_)
Pow2(n) == IF n <= 0 THEN 1 ELSE 2 * Pow2(n - 1)

Min(a, b) == IF a < b THEN a ELSE b

Abs(x) == IF x < 0 THEN -x ELSE x

RECURSIVE Flatten(_)
Flatten(ss) == IF ss = <<>> THEN <<>> ELSE Head(ss) \o Flatten(Tail(ss))

\* f.read(n) at position p: the bytes that are there, at most n, and the
\* position after them; a position at or past the end reads nothing
Read(s, p, n) ==
    LET data == SubSeq(s, p + 1, Min(p + n, Len(s)))
    IN  [data |-> data, fpos |-> p + Len(data)]

\* struct.unpack("<H", b)[0]
U16(b) == b[1] + 256 * b[2]

\* struct.unpack("<I", b)[0]
U32(b) == b[1] + 256 * b[2] + 65536 * b[3] + 16777216 * b[4]

\* struct.unpack("<f", b)[0], in quarters
F32(b) ==
    LET sign  == b[4] \div 128
        exp   == (b[4] % 128) * 2 + b[3] \div 128
        mant  == (b[3] % 128) * 65536 + b[2] * 256 + b[1]
        shift == exp - 148
        mag   == IF exp = 0 \/ shift < -24 THEN 0
                 ELSE IF shift >= 0 THEN (8388608 + mant) * Pow2(shift)
                 ELSE (8388608 + mant) \div Pow2(-shift)
    IN  IF sign = 1 THEN -mag ELSE mag

\* struct.unpack("<fff", b)
Vec3(b) == <<F32(SubSeq(b, 1, 4)), F32(SubSeq(b, 5, 8)), F32(SubSeq(b, 9, 12))>>

\* numpy.frombuffer(b, dtype="<f4").reshape(-1, 3); Len(b) is a multiple of 12
FloatRows3(b) == [k \in 1..(Len(b) \div 12) |-> Vec3(SubSeq(b, 12 * k - 11, 12 * k))]

\* numpy.frombuffer(b, dtype="<f4").reshape(-1, 2); Len(b) is a multiple of 8
FloatRows2(b) ==
    [k \in 1..(Len(b) \div 8) |->
        <<F32(SubSeq(b, 8 * k - 7, 8 * k - 4)), F32(SubSeq(b, 8 * k - 3, 8 * k))>>]

\* numpy.frombuffer(b, dtype="<f4"); Len(b) is a multiple of 4
Floats(b) == [k \in 1..(Len(b) \div 4) |-> F32(SubSeq(b, 4 * k - 3, 4 * k))]

\* numpy.frombuffer(b, dtype="<u2").reshape(-1, 3); Len(b) is a multiple of 6
U16Rows3(b) ==
    [k \in 1..(Len(b) \div 6) |->
        <<U16(SubSeq(b, 6 * k - 5, 6 * k - 4)), U16(SubSeq(b, 6 * k - 3, 6 * k - 2)),
          U16(SubSeq(b, 6 * k - 1, 6 * k))>>]

\* bytes.split(b'\0')[0]: the bytes before the first null byte
RECURSIVE SplitNull(_)
SplitNull(b) ==
    IF b = <<>> \/ Head(b) = 0 THEN <<>> ELSE <<Head(b)>> \o SplitNull(Tail(b))

\* readstr(f, l) applied to the bytes f.read(l) returned
readstr(data) == SplitNull(data)

\* b"Linden Binary Mesh 1.0"
Magic == <<76, 105, 110, 100, 101, 110, 32, 66, 105, 110, 97, 114, 121, 32,
           77, 101, 115, 104, 32, 49, 46, 48>>

\* b"End Morphs"
EndMorphs == <<69, 110, 100, 32, 77, 111, 114, 112, 104, 115>>

\* the byte lengths of the fields execute reads
MagicLen == 24
NameLen == 64
DeltaLen == 48

(* --------------------------- the input files --------------------------- *)
Zeros(n) == [k \in 1..n |-> 0]

Pad(b, n) == b \o Zeros(n - Len(b))

EncU16(n) == <<n % 256, n \div 256>>

EncU32(n) == <<n % 256, (n \div 256) % 256, (n \div 65536) % 256, n \div 16777216>>

RECURSIVE Log2(_)
Log2(a) == IF a <= 1 THEN 0 ELSE 1 + Log2(a \div 2)

\* the IEEE-754 bytes of q quarters
EncF32(q) ==
    IF q = 0 THEN <<0, 0, 0, 0>>
    ELSE LET a    == Abs(q)
             p    == Log2(a)
             exp  == 125 + p
             mant == (a - Pow2(p)) * Pow2(23 - p)
         IN  <<mant % 256, (mant \div 256) % 256,
               (exp % 2) * 128 + mant \div 65536,
               (IF q < 0 THEN 128 ELSE 0) + exp \div 2>>

EncVec(v) == Flatten([k \in 1..Len(v) |-> EncF32(v[k])])

\* the transform of every file of the model, and its rotation order byte
FilePos == <<4, 8, 12>>
FileRot == <<2, -1, 3>>
FileScl == <<4, 6, 8>>
FileRotOrder == <<5>>

\* vertex number v (from 0) of every file: position, texture coordinate
VertPos(v) == <<4 * v, 4, -2 * v - 1>>
VertUV(v) == <<v, 4 - v>>

\* the weight patterns: the weight, in quarters, of vertex v
\*   "spread": 0.5, 1.5, 2.5, ...   "high": 2.5 everywhere
\*   "whole": 1.0, 2.0, 3.0, ...    "low": 1.5 everywhere
WeightPatterns == {"spread", "high", "whole", "low"}
WeightOf(wpat, v) ==
    CASE wpat = "spread" -> 2 + 4 * v
      [] wpat = "high"   -> 10
      [] wpat = "whole"  -> 4 + 4 * v
      [] OTHER           -> 6

\* the face triples a file may hold; vertex count n makes <<0, 1, n>> out of range
FaceChoices(n) == {<<0, 1, 2>>, <<0, 1, n>>, <<1, 1, 2>>, <<2, 0, 1>>}

\* the morph targets a file may hold: a name and its delta records
DeltaA == <<4, 0, 0>>
DeltaB == <<0, -2, 0>>
MorphChoices(n) ==
    { [name |-> <<77, 48>>, deltas |-> <<>>],
      [name |-> <<77, 49>>, deltas |-> <<[idx |-> 0, d |-> DeltaA]>>],
      [name |-> <<77, 50>>, deltas |-> <<[idx |-> 1, d |-> DeltaB], [idx |-> 0, d |-> DeltaB]>>],
      [name |-> <<77, 51>>, deltas |-> <<[idx |-> n, d |-> DeltaA], [idx |-> 0, d |-> DeltaA]>>],
      [name |-> <<77, 52>>, deltas |-> <<[idx |-> 0, d |-> DeltaA], [idx |-> 0, d |-> DeltaB]>>] }

SeqsUpTo(S, n) == UNION {[1..k -> S] : k \in 0..n}

\* how the morph entries end: the "End Morphs" block, an empty name, the end of the stream
Terms == {"end", "empty", "eof"}

\* what follows the terminator: nothing, or one more morph entry
Tails == {"none", "entry"}

EncDelta(r) == EncU32(r.idx) \o EncVec(r.d) \o Zeros(32)

EncMorph(m) ==
    Pad(m.name, NameLen) \o EncU32(Len(m.deltas))
        \o Flatten([k \in 1..Len(m.deltas) |-> EncDelta(m.deltas[k])])

\* the bytes of a file before its morph terminator
Body(f) ==
    LET n == f.cverts
    IN  Pad(Magic, MagicLen) \o <<f.hw, f.hd>>
        \o EncVec(FilePos) \o EncVec(FileRot) \o FileRotOrder \o EncVec(FileScl)
        \o EncU16(n)
        \o Flatten([k \in 1..n |-> EncVec(VertPos(k - 1))])
        \o Flatten([k \in 1..n |-> EncVec(<<4, 0, 0>>) \o EncVec(<<0, 4, 0>>)])
        \o Flatten([k \in 1..n |-> EncVec(VertUV(k - 1))])
        \o (IF f.hd # 0 THEN Flatten([k \in 1..n |-> EncVec(<<2, 2>>)]) ELSE <<>>)
        \o (IF f.hw # 0 THEN Flatten([k \in 1..n |-> EncF32(WeightOf(f.wpat, k - 1))])
            ELSE <<>>)
        \o EncU16(Len(f.faces))
        \o Flatten([k \in 1..Len(f.faces) |->
                       EncU16(f.faces[k][1]) \o EncU16(f.faces[k][2]) \o EncU16(f.faces[k][3])])
        \o (IF f.hw # 0
            THEN EncU16(f.njoints) \o Flatten([k \in 1..f.njoints |-> Pad(<<74, 48 + k>>, NameLen)])
            ELSE <<>>)
        \o Flatten([k \in 1..Len(f.morphs) |-> EncMorph(f.morphs[k])])

Terminator(f) ==
    CASE f.term = "end"   -> Pad(EndMorphs, NameLen)
      [] f.term = "empty" -> Zeros(NameLen)
      [] OTHER            -> <<>>

TailBytes(f) ==
    IF f.tail = "entry" /\ f.term # "eof"
    THEN EncMorph([name |-> <<90>>, deltas |-> <<[idx |-> 0, d |-> DeltaA]>>])
    ELSE <<>>

Encode(f) == Body(f) \o Terminator(f) \o TailBytes(f)

\* the offset of the morph terminator block
TermOffset(f) == Len(Body(f))

\* the default file: three vertices, one triangle, no weights, no morphs
DefaultFile ==
    [hw |-> 0, hd |-> 0, cverts |-> 3, wpat |-> "low", faces |-> << <<0, 1, 2>> >>,
     njoints |-> 0, morphs |-> <<>>, term |-> "end", tail |-> "none"]

\* the flag bytes a file may hold: non-zero is true
FlagBytes == {0, 1, 2}

Repeat(x, n) == [k \in 1..n |-> x]

\* files of every layout, to be cut at every offset: n vertices, n faces
\* and n morph targets of one delta record each
CutFiles ==
    { [DefaultFile EXCEPT !.hw = hw, !.hd = hd, !.cverts = n,
                          !.faces = Repeat(<<0, 0, 0>>, n),
                          !.njoints = IF hw # 0 THEN MaxJoints ELSE 0,
                          !.morphs = Repeat([name |-> <<77, 49>>,
                                             deltas |-> <<[idx |-> 0, d |-> DeltaA]>>], n)] :
        hw \in {0, 1}, hd \in {0, 1}, n \in 0..MaxCut }

\* files whose flags, vertex count and weights vary
FlagFiles ==
    { [DefaultFile EXCEPT !.hw = hw, !.hd = hd, !.cverts = n, !.wpat = w, !.njoints = nj] :
        hw \in FlagBytes, hd \in FlagBytes, n \in 0..MaxVerts,
        w \in WeightPatterns, nj \in 0..MaxJoints }

\* files whose faces vary
FaceFiles ==
    UNION { { [DefaultFile EXCEPT !.cverts = n, !.faces = fs] :
                fs \in SeqsUpTo(FaceChoices(n), MaxFaces) } : n \in 0..MaxVerts }

\* files of two vertices whose morph targets, terminator and trailing bytes vary
MorphFiles ==
    { [DefaultFile EXCEPT !.cverts = 2, !.morphs = ms, !.term = tt[1], !.tail = tt[2]] :
        ms \in SeqsUpTo(MorphChoices(2), MaxMorphs),
        tt \in (Terms \X {"none"}) \cup ({"end", "empty"} \X {"entry"}) }

\* an input: a file, the offset it is cut at (-1: whole) and the index of
\* the magic byte overwritten with "X" (-1: none)
NoCut == 0 - 1
NoBad == 0 - 1
Inputs ==
    UNION { { [file |-> f, cut |-> c, bad |-> NoBad] : c \in 0..Len(Encode(f)) } :
            f \in CutFiles }
    \cup { [file |-> f, cut |-> NoCut, bad |-> NoBad] :
            f \in FlagFiles \cup FaceFiles \cup MorphFiles }
    \cup { [file |-> DefaultFile, cut |-> NoCut, bad |-> k] : k \in 0..(MagicLen - 1) }

\* the byte stream of an input
StreamOf(in) ==
    LET whole == Encode(in.file)
        kept  == IF in.cut = NoCut THEN whole ELSE SubSeq(whole, 1, in.cut)
    IN  [k \in 1..Len(kept) |-> IF k = in.bad + 1 THEN 88 ELSE kept[k]]

(* ------------------------------- state --------------------------------- *)
VARIABLES
    stream,       \* the bytes of the file self.filepath
    input,        \* what the stream was built from: a file, its cut, its damage (history)
    fpos,         \* the position of the file object f
    log,          \* the reads and seeks done on f, in order (history)
    pc,           \* where execute is
    err,          \* the exception that ended execute, "" if none
    report,       \* what self.report was given, "" if nothing
    name,         \* the local name
    has_weights, has_dtc, pos, rot, scl,
    cverts, verts, texcoords, weights, faces,
    i,            \* the bucket index of the weight loop
    meshes,       \* bpy.data.meshes
    objects       \* bpy.data.objects, linked into the collection

locals == <<name, has_weights, has_dtc, pos, rot, scl, cverts, verts, texcoords,
            weights, faces, i>>
host == <<meshes, objects>>
vars == <<stream, input, fpos, log, pc, err, report, locals, host>>

\* the base name of self.filepath, "m"
BaseName == <<109>>

InvalidFileMsg == "Invalid .llm file"

Init ==
    /\ input \in Inputs
    /\ stream = StreamOf(input)
    /\ fpos = 0
    /\ log = <<>>
    /\ pc = "start"
    /\ err = ""
    /\ report = ""
    /\ name = BaseName
    /\ has_weights = 0 /\ has_dtc = 0
    /\ pos = <<>> /\ rot = <<>> /\ scl = <<>>
    /\ cverts = 0 /\ verts = <<>> /\ texcoords = <<>> /\ weights = <<>> /\ faces = <<>>
    /\ i = 0
    /\ meshes = <<>>
    /\ objects = <<>>

\* a log entry: a read of n bytes at offset at that returned r.data
ReadEntry(what, at, n, r) == [op |-> "read", what |-> what, at |-> at, n |-> n, got |-> Len(r.data)]

\* a log entry: f.seek(n, 1) at offset at
SeekEntry(what, at, n) == [op |-> "seek", what |-> what, at |-> at, n |-> n, got |-> 0]

\* the exception exc is raised: execute ends, with f at position p
Raise(exc, p, entries) ==
    /\ pc' = "error"
    /\ err' = exc
    /\ fpos' = p
    /\ log' = log \o entries

\* a magic test that compares only the first 22 bytes of the field
MagicOK_prefix(data) == Len(data) >= Len(Magic) /\ SubSeq(data, 1, Len(Magic)) = Magic

\* the magic test of line 55
MagicOK(data) == readstr(data) = Magic

\* lines 54-57: the magic header
CheckMagic ==
    /\ pc = "start"
    /\ LET r == Read(stream, fpos, MagicLen)
       IN  /\ fpos' = r.fpos
           /\ log' = Append(log, ReadEntry("magic", fpos, MagicLen, r))
           /\ IF MagicOK(r.data)
              THEN pc' = "header" /\ report' = report
              ELSE pc' = "cancelled" /\ report' = InvalidFileMsg
    /\ UNCHANGED <<stream, input, err, locals, host>>

\* a header read in the order position, rotation order byte, rotation, scale
Header_orderFirst(s, p) ==
    LET a  == Read(s, p, 2)
        b  == Read(s, a.fpos, 12)
        d  == Read(s, b.fpos, 1)
        c  == Read(s, d.fpos, 12)
        e  == Read(s, c.fpos, 12)
        la == <<ReadEntry("flags", p, 2, a)>>
        lb == Append(la, ReadEntry("pos", a.fpos, 12, b))
        ld == Append(lb, ReadEntry("rot_order", b.fpos, 1, d))
        lc == Append(ld, ReadEntry("rot", d.fpos, 12, c))
        le == Append(lc, ReadEntry("scl", c.fpos, 12, e))
    IN  IF Len(a.data) # 2 THEN [exc |-> "ValueError", fpos |-> a.fpos, log |-> la]
        ELSE IF Len(b.data) # 12 THEN [exc |-> "struct.error", fpos |-> b.fpos, log |-> lb]
        ELSE IF Len(c.data) # 12 THEN [exc |-> "struct.error", fpos |-> c.fpos, log |-> lc]
        ELSE IF Len(e.data) # 12 THEN [exc |-> "struct.error", fpos |-> e.fpos, log |-> le]
        ELSE [exc |-> "", fpos |-> e.fpos, log |-> le,
              has_weights |-> a.data[1], has_dtc |-> a.data[2],
              pos |-> Vec3(b.data), rot |-> Vec3(c.data), scl |-> Vec3(e.data)]

\* lines 58-62: the flags and the transform; the fields, or the exception
Header(s, p) ==
    LET a  == Read(s, p, 2)
        b  == Read(s, a.fpos, 12)
        c  == Read(s, b.fpos, 12)
        d  == Read(s, c.fpos, 1)
        e  == Read(s, d.fpos, 12)
        la == <<ReadEntry("flags", p, 2, a)>>
        lb == Append(la, ReadEntry("pos", a.fpos, 12, b))
        lc == Append(lb, ReadEntry("rot", b.fpos, 12, c))
        ld == Append(lc, ReadEntry("rot_order", c.fpos, 1, d))
        le == Append(ld, ReadEntry("scl", d.fpos, 12, e))
    IN  IF Len(a.data) # 2 THEN [exc |-> "ValueError", fpos |-> a.fpos, log |-> la]
        ELSE IF Len(b.data) # 12 THEN [exc |-> "struct.error", fpos |-> b.fpos, log |-> lb]
        ELSE IF Len(c.data) # 12 THEN [exc |-> "struct.error", fpos |-> c.fpos, log |-> lc]
        ELSE IF Len(e.data) # 12 THEN [exc |-> "struct.error", fpos |-> e.fpos, log |-> le]
        ELSE [exc |-> "", fpos |-> e.fpos, log |-> le,
              has_weights |-> a.data[1], has_dtc |-> a.data[2],
              pos |-> Vec3(b.data), rot |-> Vec3(c.data), scl |-> Vec3(e.data)]

ReadHeader ==
    /\ pc = "header"
    /\ LET h == Header(stream, fpos)
       IN  IF h.exc # ""
           THEN /\ Raise(h.exc, h.fpos, h.log)
                /\ UNCHANGED <<has_weights, has_dtc, pos, rot, scl>>
           ELSE /\ pc' = "verts" /\ err' = err
                /\ fpos' = h.fpos
                /\ log' = log \o h.log
                /\ has_weights' = h.has_weights /\ has_dtc' = h.has_dtc
                /\ pos' = h.pos /\ rot' = h.rot /\ scl' = h.scl
    /\ UNCHANGED <<stream, input, report, name, cverts, verts, texcoords, weights, faces, i, host>>

\* a flag test that takes only the byte 1 for true
Truthy_isOne(b) == b = 1

\* lines 68, 71, 88: "if has_dtc:", "if has_weights:" on a byte
Truthy(b) == b # 0

\* lines 64-72: the vertex block; the arrays, or the exception
VertexBlock(s, p, hw, hd) ==
    LET a   == Read(s, p, 2)
        n   == U16(a.data)
        b   == Read(s, a.fpos, n * 12)
        p1  == b.fpos + n * 24
        c   == Read(s, p1, n * 8)
        p2  == IF Truthy(hd) THEN c.fpos + n * 8 ELSE c.fpos
        d   == Read(s, p2, n * 4)
        la  == <<ReadEntry("cverts", p, 2, a)>>
        lb  == Append(la, ReadEntry("verts", a.fpos, n * 12, b))
        lc  == lb \o <<SeekEntry("normals", b.fpos, n * 24), ReadEntry("texcoords", p1, n * 8, c)>>
        ld  == IF Truthy(hd) THEN Append(lc, SeekEntry("detail_uv", c.fpos, n * 8)) ELSE lc
        le  == IF Truthy(hw) THEN Append(ld, ReadEntry("weights", p2, n * 4, d)) ELSE ld
    IN  IF Len(a.data) # 2 THEN [exc |-> "struct.error", fpos |-> a.fpos, log |-> la]
        ELSE IF Len(b.data) % 12 # 0
             THEN [exc |-> "ValueError", fpos |-> b.fpos, log |-> lb, cverts |-> n]
        ELSE IF Len(c.data) % 8 # 0
             THEN [exc |-> "ValueError", fpos |-> c.fpos, log |-> lc, cverts |-> n,
                   verts |-> FloatRows3(b.data)]
        ELSE IF Truthy(hw) /\ Len(d.data) % 4 # 0
             THEN [exc |-> "ValueError", fpos |-> d.fpos, log |-> le, cverts |-> n,
                   verts |-> FloatRows3(b.data), texcoords |-> FloatRows2(c.data)]
        ELSE [exc |-> "", fpos |-> IF Truthy(hw) THEN d.fpos ELSE p2, log |-> le, cverts |-> n,
              verts |-> FloatRows3(b.data), texcoords |-> FloatRows2(c.data),
              weights |-> IF Truthy(hw) THEN Floats(d.data) ELSE <<>>]

\* field fld of the record r of a block, or the local's value if the
\* exception came before its assignment
Got(r, fld, old) == IF fld \in DOMAIN r THEN r[fld] ELSE old

ReadVertices ==
    /\ pc = "verts"
    /\ LET v == VertexBlock(stream, fpos, has_weights, has_dtc)
       IN  /\ IF v.exc # ""
              THEN Raise(v.exc, v.fpos, v.log)
              ELSE /\ pc' = "faces" /\ err' = err
                   /\ fpos' = v.fpos
                   /\ log' = log \o v.log
           /\ cverts' = Got(v, "cverts", cverts)
           /\ verts' = Got(v, "verts", verts)
           /\ texcoords' = Got(v, "texcoords", texcoords)
           /\ weights' = Got(v, "weights", weights)
    /\ UNCHANGED <<stream, input, report, name, has_weights, has_dtc, pos, rot, scl, faces, i, host>>

\* line 74: the face block
FaceBlock(s, p) ==
    LET a  == Read(s, p, 2)
        n  == U16(a.data)
        b  == Read(s, a.fpos, n * 6)
        la == <<ReadEntry("cfaces", p, 2, a)>>
        lb == Append(la, ReadEntry("faces", a.fpos, n * 6, b))
    IN  IF Len(a.data) # 2 THEN [exc |-> "struct.error", fpos |-> a.fpos, log |-> la]
        ELSE IF Len(b.data) % 6 # 0 THEN [exc |-> "ValueError", fpos |-> b.fpos, log |-> lb]
        ELSE [exc |-> "", fpos |-> b.fpos, log |-> lb, faces |-> U16Rows3(b.data)]

ReadFaces ==
    /\ pc = "faces"
    /\ LET r == FaceBlock(stream, fpos)
       IN  /\ IF r.exc # ""
              THEN Raise(r.exc, r.fpos, r.log)
              ELSE /\ pc' = "build" /\ err' = err
                   /\ fpos' = r.fpos
                   /\ log' = log \o r.log
           /\ faces' = Got(r, "faces", faces)
    /\ UNCHANGED <<stream, input, report, name, has_weights, has_dtc, pos, rot, scl,
                   cverts, verts, texcoords, weights, i, host>>

\* a mesh that is not validated: every face handed over is kept
Validate_none(fs, nverts, kept) == fs

\* line 78, mesh.validate() of the host: a face with a vertex index that is
\* no vertex of the mesh, a face that uses a vertex twice and a face on the
\* vertex set of an earlier face are removed
RECURSIVE Validate(_, _, _)
Validate(fs, nverts, kept) ==
    IF fs = <<>> THEN kept
    ELSE LET f   == Head(fs)
             bad == \/ \E k \in 1..3 : f[k] >= nverts
                    \/ Cardinality({f[1], f[2], f[3]}) < 3
                    \/ \E j \in 1..Len(kept) :
                          {kept[j][1], kept[j][2], kept[j][3]} = {f[1], f[2], f[3]}
         IN  Validate(Tail(fs), nverts, IF bad THEN kept ELSE Append(kept, f))

\* lines 76-79: the mesh of name nm; line 79 indexes texcoords with the
\* vertex index of every loop of the validated mesh
NewMesh(nm, vs, fs, uvs) ==
    LET polys == Validate(fs, Len(vs), <<>>)
        loops == Flatten(polys)
    IN  IF \E k \in 1..Len(loops) : loops[k] >= Len(uvs)
        THEN [exc |-> "IndexError", name |-> nm, verts |-> vs, faces |-> polys, uv |-> <<>>]
        ELSE [exc |-> "", name |-> nm, verts |-> vs, faces |-> polys,
              uv |-> [k \in 1..Len(loops) |-> uvs[loops[k] + 1]]]

\* lines 76-86: the mesh and the object are created and linked
BuildMesh ==
    /\ pc = "build"
    /\ LET m == NewMesh(name, verts, faces, texcoords)
       IN  /\ meshes' = Append(meshes, m)
           /\ IF m.exc # ""
              THEN /\ pc' = "error" /\ err' = m.exc
                   /\ objects' = objects
              ELSE /\ pc' = IF Truthy(has_weights) THEN "joints" ELSE "basis"
                   /\ err' = err
                   /\ objects' = Append(objects,
                          [name |-> name, mesh |-> Len(meshes) + 1,
                           location |-> pos, rotation_euler |-> rot, rotation_mode |-> "XYZ",
                           scale |-> scl, vertex_groups |-> <<>>, shape_keys |-> <<>>])
    /\ UNCHANGED <<stream, input, fpos, log, report, locals>>

\* obj, the object execute created: the last of bpy.data.objects
Obj == objects[Len(objects)]

SetObj(o) == [objects EXCEPT ![Len(objects)] = o]

\* line 93: the joint count is read and the joint names are skipped
SkipJoints ==
    /\ pc = "joints"
    /\ LET a == Read(stream, fpos, 2)
           e == ReadEntry("cjoints", fpos, 2, a)
       IN  IF Len(a.data) # 2
           THEN Raise("struct.error", a.fpos, <<e>>) /\ i' = i
           ELSE /\ pc' = "wloop" /\ err' = err
                /\ fpos' = a.fpos + U16(a.data) * NameLen
                /\ log' = log \o <<e, SeekEntry("joint_names", a.fpos, U16(a.data) * NameLen)>>
                /\ i' = 0
    /\ UNCHANGED <<stream, input, report, name, has_weights, has_dtc, pos, rot, scl,
                   cverts, verts, texcoords, weights, faces, host>>

\* a bucket one unit too wide: weights > i - 1
Bucket_wide(ws, b) ==
    LET RECURSIVE Pick(_)
        Pick(k) == IF k > Len(ws) THEN <<>>
                   ELSE (IF ws[k] > 4 * (b - 1) /\ ws[k] < 4 * (b + 2) THEN <<k - 1>> ELSE <<>>)
                        \o Pick(k + 1)
    IN  Pick(1)

\* line 96: numpy.where((weights > i) & (weights < i + 2))[0], the vertex
\* indices of bucket b in increasing order (weights are in quarters)
Bucket(ws, b) ==
    LET RECURSIVE Pick(_)
        Pick(k) == IF k > Len(ws) THEN <<>>
                   ELSE (IF ws[k] > 4 * b /\ ws[k] < 4 * (b + 2) THEN <<k - 1>> ELSE <<>>)
                        \o Pick(k + 1)
    IN  Pick(1)

\* line 101: the blend factor 1 - abs(i + 1 - weights[vi]), in quarters
Blend(b, w) == 4 - Abs(4 * (b + 1) - w)

\* lines 95-102: one turn of the weight loop
WeightLoop ==
    /\ pc = "wloop"
    /\ LET indices == Bucket(weights, i)
       IN  IF Len(indices) = 0
           THEN pc' = "basis" /\ UNCHANGED <<i, objects>>
           ELSE /\ objects' = SetObj([Obj EXCEPT !.vertex_groups = Append(@,
                        [name |-> <<"W", i>>,
                         members |-> [k \in 1..Len(indices) |->
                             [vi |-> indices[k],
                              weight |-> Blend(i, weights[indices[k] + 1])]]])])
                /\ i' = i + 1
                /\ pc' = pc
    /\ UNCHANGED <<stream, input, fpos, log, err, report, name, has_weights, has_dtc,
                   pos, rot, scl, cverts, verts, texcoords, weights, faces, meshes>>

\* obj.shape_key_add(name=nm, from_mix=False): the new key holds the
\* positions of the mesh
NewShapeKey(o, nm) == [name |-> nm, co |-> meshes[o.mesh].verts]

\* line 104: the Basis shape key
AddBasis ==
    /\ pc = "basis"
    /\ objects' = SetObj([Obj EXCEPT !.shape_keys = Append(@, NewShapeKey(Obj, "Basis"))])
    /\ pc' = "morph"
    /\ UNCHANGED <<stream, input, fpos, log, err, report, locals, meshes>>

\* the record struct.iter_unpack("<Ifffffffffff", b) yields from 48 bytes:
\* the index and the first three floats are used
DeltaRecord(b) == [idx |-> U32(SubSeq(b, 1, 4)), d |-> Vec3(SubSeq(b, 5, 16))]

\* lines 110-111: the records of b are added to the positions co in stream
\* order; an index that is no vertex raises IndexError and keeps what was added
RECURSIVE ApplyDeltas(_, _)
ApplyDeltas(co, b) ==
    IF b = <<>> THEN [exc |-> "", co |-> co]
    ELSE LET r == DeltaRecord(SubSeq(b, 1, DeltaLen))
         IN  IF r.idx >= Len(co) THEN [exc |-> "IndexError", co |-> co]
             ELSE ApplyDeltas(
                    [co EXCEPT ![r.idx + 1] = <<@[1] + r.d[1], @[2] + r.d[2], @[3] + r.d[3]>>],
                    SubSeq(b, DeltaLen + 1, Len(b)))

\* a loop test that forgets the "End Morphs" sentinel
MorphStop_emptyOnly(nm) == nm = <<>>

\* line 107: the test that ends the morph loop
MorphStop(nm) == nm = <<>> \/ nm = EndMorphs

\* lines 105-111: one turn of the morph loop, and line 113 when it ends
MorphTarget ==
    /\ pc = "morph"
    /\ LET a   == Read(stream, fpos, NameLen)
           nm  == readstr(a.data)
           b   == Read(stream, a.fpos, 4)
           n   == U32(b.data)
           c   == Read(stream, b.fpos, n * DeltaLen)
           la  == <<ReadEntry("morph_name", fpos, NameLen, a)>>
           lb  == Append(la, ReadEntry("cdeltas", a.fpos, 4, b))
           lc  == Append(lb, ReadEntry("deltas", b.fpos, n * DeltaLen, c))
           key == NewShapeKey(Obj, nm)
           WithKey(k) == SetObj([Obj EXCEPT !.shape_keys = Append(@, k)])
           res == ApplyDeltas(key.co, c.data)
       IN  /\ name' = nm
           /\ IF MorphStop(nm)
              THEN /\ pc' = "finished" /\ err' = err
                   /\ fpos' = a.fpos /\ log' = log \o la
                   /\ objects' = objects
              ELSE IF \E k \in 1..Len(nm) : nm[k] >= 128
              THEN Raise("UnicodeDecodeError", a.fpos, la) /\ objects' = objects
              ELSE IF Len(b.data) # 4
              THEN Raise("struct.error", b.fpos, lb) /\ objects' = WithKey(key)
              ELSE IF Len(c.data) % DeltaLen # 0
              THEN Raise("struct.error", c.fpos, lc) /\ objects' = WithKey(key)
              ELSE IF res.exc # ""
              THEN Raise(res.exc, c.fpos, lc) /\ objects' = WithKey([key EXCEPT !.co = res.co])
              ELSE /\ pc' = pc /\ err' = err
                   /\ fpos' = c.fpos /\ log' = log \o lc
                   /\ objects' = WithKey([key EXCEPT !.co = res.co])
    /\ UNCHANGED <<stream, input, report, has_weights, has_dtc, pos, rot, scl,
                   cverts, verts, texcoords, weights, faces, i, meshes>>

Next ==
    \/ CheckMagic
    \/ ReadHeader
    \/ ReadVertices
    \/ ReadFaces
    \/ BuildMesh
    \/ SkipJoints
    \/ WeightLoop
    \/ AddBasis
    \/ MorphTarget

Spec == Init /\ [][Next]_vars

Terminal == pc \in {"finished", "cancelled", "error"}

(* ------------------------------ the claims ----------------------------- *)
\* the file execute was given, as it was before any cut
File == input.file

\* the log holds an operation tagged what
Did(what) == \E k \in 1..Len(log) : log[k].what = what

\* every face index and every morph index of file f is one of its vertices
ValidFile(f) ==
    /\ \A k \in 1..Len(f.faces) : \A c \in 1..3 : f.faces[k][c] < f.cverts
    /\ \A k \in 1..Len(f.morphs) : \A j \in 1..Len(f.morphs[k].deltas) :
          f.morphs[k].deltas[j].idx < f.cverts
    /\ f.term = "end"

\* the stream is a valid file cut at an offset before its morph terminator block
CutBeforeTerminator ==
    ValidFile(File) /\ input.cut # NoCut /\ input.cut < TermOffset(File)

\* C1 (truncation): an import of a valid stream cut at an offset before the
\* morph terminator block never finishes successfully, and never hands the
\* host vertex, UV, weight or face arrays whose lengths differ from the
\* vertexCount and faceCount the stream declares.
C1_TruncationIsAnError ==
    CutBeforeTerminator =>
        /\ pc # "finished"
        /\ meshes # <<>> =>
              /\ Len(verts) = File.cverts
              /\ Len(texcoords) = File.cverts
              /\ (File.hw # 0 => Len(weights) = File.cverts)
              /\ Len(faces) = Len(File.faces)

\* C2 (no partial result): whenever the import has failed with an error, no
\* mesh and no object (hence no vertex group, no shape key) exists in the
\* host: the host data are what they were before the call.
C2_NoPartialResult ==
    pc = "error" => meshes = <<>> /\ objects = <<>>

\* the weight loop of a file with weights has ended
WeightLoopDone == Did("joint_names") /\ pc # "wloop"

\* C4 (weight buckets): with hasWeights set, once the weight groups are
\* made, every vertex of weight w is in group "W{i}" with blend factor
\* 1 - |i + 1 - w|, a factor within [0, 1], for every bucket index i >= 0
\* with i < w < i + 2; a lone vertex of weight 2.5 is in W1 and in W2.
C4_EveryBucketOfEveryVertex ==
    WeightLoopDone =>
        \A v \in 1..Len(weights) : \A b \in 0..(weights[v] \div 4) :
            (4 * b < weights[v] /\ weights[v] < 4 * (b + 2)) =>
                /\ 4 - Abs(4 * (b + 1) - weights[v]) \in 0..4
                /\ \E g \in 1..Len(Obj.vertex_groups) :
                      /\ Obj.vertex_groups[g].name = <<"W", b>>
                      /\ \E m \in 1..Len(Obj.vertex_groups[g].members) :
                            Obj.vertex_groups[g].members[m] =
                                [vi |-> v - 1, weight |-> 4 - Abs(4 * (b + 1) - weights[v])]

\* the delta records of morph target m of the file that name vertex v
Listed(m, v) == {j \in 1..Len(m.deltas) : m.deltas[j].idx = v}

\* C8 (morph frame effect): in every shape key created for a morph target
\* of a whole stream, a vertex that none of the morph's delta records names
\* is at its base position and a vertex that exactly one record names is at
\* its base position plus that record's (dx, dy, dz); nothing of an earlier
\* morph target is carried into a later one.
C8_MorphRelativeToBase ==
    (input.cut = NoCut /\ objects # <<>>) =>
        \A k \in 2..Len(Obj.shape_keys) :
            LET m    == File.morphs[k - 1]
                co   == Obj.shape_keys[k].co
                base == meshes[Obj.mesh].verts
            IN  \A v \in 1..Len(base) :
                    /\ Listed(m, v - 1) = {} => co[v] = base[v]
                    /\ Cardinality(Listed(m, v - 1)) = 1 =>
                          LET d == m.deltas[CHOOSE j \in Listed(m, v - 1) : TRUE].d
                          IN  co[v] = <<base[v][1] + d[1], base[v][2] + d[2], base[v][3] + d[3]>>

\* the magic field: the first 24 bytes of the stream, fewer if it is shorter
MagicField == SubSeq(stream, 1, Min(MagicLen, Len(stream)))

\* the import was cancelled as an invalid file: one read, of the magic field
\* only, and nothing in the host
CancelledAsInvalid ==
    /\ pc = "cancelled"
    /\ report = InvalidFileMsg
    /\ err = ""
    /\ Len(log) = 1 /\ log[1].at = 0 /\ fpos <= MagicLen
    /\ meshes = <<>> /\ objects = <<>>

\* C3 as stated (magic mismatch): an input whose first 24 bytes are not
\* exactly "Linden Binary Mesh 1.0" followed by null bytes up to 24 is
\* reported as an invalid file and cancelled, nothing past byte 24 is read
\* and no host object is created.
C3_AnyDifferenceCancels ==
    (pc # "start" /\ Len(stream) >= MagicLen /\ MagicField # Pad(Magic, MagicLen))
        => CancelledAsInvalid

\* the bytes of b before its first null byte
BeforeNull(b) ==
    SubSeq(b, 1, CHOOSE k \in 0..Len(b) :
                    /\ \A j \in 1..k : b[j] # 0
                    /\ k = Len(b) \/ b[k + 1] = 0)

\* C3 as amended: an input whose magic field, cut at its first null byte,
\* is not the 22 bytes "Linden Binary Mesh 1.0" is reported as an invalid
\* file and cancelled, nothing past byte 24 is read and no host object is
\* created.
C3_TextDifferenceCancels ==
    (pc # "start" /\ BeforeNull(MagicField) # Magic) => CancelledAsInvalid

\* C3 witness: the byte after the 22 of the literal is "X", not null, and
\* the import was cancelled
C3_Witness ==
    /\ input.bad = Len(Magic)
    /\ SubSeq(stream, 1, Len(Magic)) = Magic
    /\ CancelledAsInvalid

\* C5 (morph termination): once the morph loop has read a name field whose
\* null-truncated content is "End Morphs", the import finishes there: that
\* read, at the offset of the terminator block, is the last operation on
\* the stream, and the shape keys are Basis and then one per morph entry
\* that precedes the terminator, in stream order, whatever bytes follow.
C5_EndMorphsStops ==
    name = EndMorphs =>
        /\ pc = "finished"
        /\ log[Len(log)].what = "morph_name"
        /\ log[Len(log)].at = TermOffset(File)
        /\ fpos = log[Len(log)].at + log[Len(log)].got
        /\ Len(Obj.shape_keys) = 1 + Len(File.morphs)
        /\ Obj.shape_keys[1].name = "Basis"
        /\ \A k \in 1..Len(File.morphs) : Obj.shape_keys[k + 1].name = File.morphs[k].name

\* C5 witness: two morph targets, then the terminator, then one more morph
\* entry that is never read
C5_Witness ==
    /\ name = EndMorphs
    /\ pc = "finished"
    /\ File.tail = "entry"
    /\ Len(File.morphs) = 2
    /\ fpos < Len(stream)

\* the header was read to its end
HeaderRead == scl # <<>>

\* the float triple at stream offsets off .. off + 11
VecAt(off) == Vec3(SubSeq(stream, off + 1, off + 12))

\* entry k of the log is the read of n bytes tagged what at offset at
ReadAt(k, what, at, n) ==
    /\ log[k].op = "read" /\ log[k].what = what
    /\ log[k].at = at /\ log[k].n = n /\ log[k].got = n

\* C6 as stated (header field order): after the magic and the two flag
\* bytes come position (12 bytes), the rotation order byte, rotation (12
\* bytes) and scale (12 bytes): the rotation order byte is the byte at
\* offset 38 and rotation is decoded from offsets 39..50.
C6_OrderByteBeforeRotation ==
    HeaderRead =>
        /\ ReadAt(3, "pos", 26, 12) /\ pos = VecAt(26)
        /\ \E k \in 1..Len(log) : ReadAt(k, "rot_order", 38, 1)
        /\ \E k \in 1..Len(log) : ReadAt(k, "rot", 39, 12)
        /\ rot = VecAt(39)
        /\ \E k \in 1..Len(log) : ReadAt(k, "scl", 51, 12)
        /\ scl = VecAt(51)

\* C6 as amended: after the magic and the two flag bytes come position (12
\* bytes, offsets 26..37), rotation (12 bytes, offsets 38..49), the unused
\* rotation order byte (offset 50) and scale (12 bytes, offsets 51..62).
C6_RotationBeforeOrderByte ==
    HeaderRead =>
        /\ ReadAt(2, "flags", 24, 2)
        /\ ReadAt(3, "pos", 26, 12) /\ pos = VecAt(26)
        /\ ReadAt(4, "rot", 38, 12) /\ rot = VecAt(38)
        /\ ReadAt(5, "rot_order", 50, 1)
        /\ ReadAt(6, "scl", 51, 12) /\ scl = VecAt(51)

\* C6 witness: the header of a whole file was read, and what was decoded is
\* the transform the file was written with
C6_Witness ==
    /\ HeaderRead /\ pc = "verts"
    /\ input.cut = NoCut
    /\ pos = FilePos /\ rot = FileRot /\ scl = FileScl
    /\ <<stream[51]>> = FileRotOrder

\* every component of every triple of fs is a vertex index below n
InRange(fs, n) == \A k \in 1..Len(fs) : \A c \in 1..3 : fs[k][c] \in 0..(n - 1)

VertexBlockDone == pc = "faces" \/ Did("cfaces")

\* execute is past the joint names of line 93, or past the test of line 88
\* that skips them
JointStageDone ==
    /\ objects # <<>>
    /\ pc # "joints"
    /\ Did("cjoints") => Did("joint_names")

\* the log holds the seek of n bytes tagged what
Skipped(what, n) ==
    \E k \in 1..Len(log) : log[k].op = "seek" /\ log[k].what = what /\ log[k].n = n

\* the log holds a read of the joint count followed by the skip of that
\* many 64-byte names
JointsSkipped ==
    \E k \in 1..(Len(log) - 1) :
        /\ log[k].op = "read" /\ log[k].what = "cjoints" /\ log[k].got = 2
        /\ log[k + 1].op = "seek" /\ log[k + 1].what = "joint_names"
        /\ log[k + 1].at = log[k].at + 2
        /\ log[k + 1].n = NameLen * U16(SubSeq(stream, log[k].at + 1, log[k].at + 2))

\* C9 (single forward pass): the read position never decreases, every read
\* and relative seek being of a non-negative number of bytes; once the
\* vertex block is read, the detail-UV skip of vertexCount * 8 bytes has
\* happened iff hasDetailTexCoords is non-zero and the weight read of
\* vertexCount * 4 bytes iff hasWeights is non-zero; and past the joint
\* stage the jointCount read and the skip of jointCount * 64 bytes have
\* happened iff hasWeights is non-zero.
C9_SingleForwardPass ==
    /\ [][fpos' >= fpos]_vars
    /\ [](\A k \in 1..Len(log) :
            /\ log[k].n >= 0 /\ log[k].got >= 0
            /\ k > 1 => log[k].at >= log[k - 1].at + log[k - 1].got)
    /\ [](VertexBlockDone =>
            /\ has_dtc # 0 <=> Skipped("detail_uv", cverts * 8)
            /\ has_weights # 0 <=>
                  \E k \in 1..Len(log) :
                      log[k].op = "read" /\ log[k].what = "weights" /\ log[k].n = cverts * 4)
    /\ [](JointStageDone => (has_weights # 0 <=> JointsSkipped))

\* C9 witness: a finished import of a file whose two flag bytes are 2, with
\* vertices, so that both skips and the weight read moved the position
C9_Witness ==
    /\ pc = "finished"
    /\ has_dtc = 2 /\ has_weights = 2
    /\ cverts = 2
    /\ File.njoints = 1
    /\ Skipped("detail_uv", 16) /\ JointsSkipped

\* the blocks of execute in program order: a step never goes back to an
\* earlier block
Stage(p) ==
    CASE p = "start"  -> 9
      [] p = "header" -> 8
      [] p = "verts"  -> 7
      [] p = "faces"  -> 6
      [] p = "build"  -> 5
      [] p = "joints" -> 4
      [] p = "wloop"  -> 3
      [] p = "basis"  -> 2
      [] p = "morph"  -> 1
      [] OTHER        -> 0

\* what is left for the loop execute is in: the buckets up to
\* 2 * vertexCount in the weight loop, the unread bytes in the morph loop
\* (none when a seek has put the position past the end)
Left ==
    CASE pc = "wloop" -> 2 * cverts - i
      [] pc = "morph" -> IF fpos < Len(stream) THEN Len(stream) - fpos ELSE 0
      [] OTHER        -> 0

\* C10 (loop termination): the loops of execute always end: each step
\* either moves to a later block or stays in its loop with less left
\* (buckets up to 2 * vertexCount, bytes of the stream), and what is left
\* is never negative, so no run takes steps for ever; a turn of the morph loop that goes on to another turn has
\* consumed at least 68 bytes; the weight loop makes at most
\* 2 * vertexCount groups.
C10_LoopsEnd ==
    /\ [](Left >= 0)
    /\ [][\/ Stage(pc') < Stage(pc)
          \/ Stage(pc') = Stage(pc) /\ Left' < Left]_vars
    /\ [][(pc = "morph" /\ pc' = "morph") => fpos' >= fpos + NameLen + 4]_vars
    /\ [](objects # <<>> => Len(Obj.vertex_groups) <= 2 * cverts)

\* C10 witness: a finished import whose weight loop made 2 * vertexCount
\* groups and whose morph loop went round once before it stopped
C10_Witness ==
    /\ pc = "finished"
    /\ cverts > 0
    /\ Len(Obj.vertex_groups) = 2 * cverts
    /\ Len(Obj.shape_keys) = 2
====
